---- MODULE Spec2Model ----
(***************************************************************************)
(* A model of simalign's fingerprint engine: HashDB::feed_vcd with its     *)
(* header pass (make_vcd_metadata) and body pass (BitState machines).      *)
(* 64-bit values are kept as 8 little-endian bytes, so that wrapping and   *)
(* overflow are computed exactly.                                          *)
(***************************************************************************)
EXTENDS Integers, Sequences, FiniteSets, TLC

VARIABLES
    name2id,          \* HashDB.name2id: insertion-ordered sequence of [name, slot]
    hashes,           \* HashDB.hashes: sequence of 64-bit fingerprints
    pc,               \* position of the ingestion: idle, header, body, done, panic
    fail,             \* which check aborted the ingestion ("" while none did)
    overflow_checks,  \* build profile: are integer overflow checks compiled in
    strobe_start,     \* feed_vcd argument
    strobe_period,    \* feed_vcd argument
    id2hash,          \* make_vcd_metadata: code -> start slot (usize_MAX: unseen)
    hash_used,        \* make_vcd_metadata: slot -> owning code (u64_MAX: unassigned)
    states,           \* feed_vcd: one BitState per slot
    cur_time_id,      \* feed_vcd: current strobe index
    old_name2id,      \* name2id on entry to the current feed_vcd call
    old_hashes,       \* hashes on entry to the current feed_vcd call
    headers,          \* the header of every trace fed so far, as enumerated
    tokens,           \* the body tokens of the current trace consumed so far
    committed,        \* per slot, the transitions update_hash folded in this trace
    file,             \* the trace file, where a specification fixes it beforehand
    db_output,        \* simstrobe: the database file written (<<>> while none is)
    db1,              \* simmatch: the first database loaded
    db2,              \* simmatch: the second database loaded
    ignore_size,      \* simmatch: the size cap args.ignore_size
    pool,             \* simmatch: insertion-ordered groups [hash, left, right]
    scanned,          \* simmatch: entries of db1, then db2, pushed so far
    stdout,           \* simmatch: the lines printed so far
    mpc               \* simmatch: position of main: idle, scan, totals, groups, exit

engine_vars == <<name2id, hashes, pc, fail, overflow_checks, strobe_start,
                 strobe_period, id2hash, hash_used, states, cur_time_id, old_name2id,
                 old_hashes, headers, tokens, committed, file>>

matcher_vars == <<db1, db2, ignore_size, pool, scanned, stdout, mpc>>

vars == <<engine_vars, db_output, matcher_vars>>

----------------------------------------------------------------------------
(* Bounds of the model. *)

MaxFeeds == 2
MaxVars == 2
MaxTokens == 4
MaxBodyTokens == 6
MaxBurst == 2
MaxVecTokens == 3
MaxNames == 2
MaxSlots == 2

----------------------------------------------------------------------------
(* 64-bit unsigned arithmetic on 8 little-endian bytes. *)

Byte == 256
Zero64 == <<0, 0, 0, 0, 0, 0, 0, 0>>

\* u64 values are written as integers: n >= 0 (below 2^31) stands for n, and
\* n < 0 (above -2^31) for 2^64 + n, so that -1 is u64::MAX
U64(n) ==
    [i \in 1..8 |-> IF i <= 4 THEN (n \div (Byte ^ (i - 1))) % Byte
                    ELSE IF n < 0 THEN 255 ELSE 0]

\* a <= b and a < b as u64
ule(a, b) == IF (a < 0) = (b < 0) THEN a <= b ELSE b < 0
ult(a, b) == a # b /\ ule(a, b)

RECURSIVE Propagate(_, _, _, _)
Propagate(cols, k, n, carry) ==
    IF k > n THEN <<>>
    ELSE LET v == cols[k] + carry
         IN  <<v % Byte>> \o Propagate(cols, k + 1, n, v \div Byte)

RECURSIVE SumCol(_, _, _, _)
SumCol(x, y, k, i) ==
    IF i > 8 THEN 0
    ELSE (IF (k + 1 - i) \in 1..8 THEN x[i] * y[k + 1 - i] ELSE 0)
         + SumCol(x, y, k, i + 1)

\* the full 128-bit product, 16 bytes
full_mul(x, y) == Propagate([k \in 1..16 |-> SumCol(x, y, k, 1)], 1, 16, 0)

wrapping_mul(x, y) == SubSeq(full_mul(x, y), 1, 8)

mul_overflows(x, y) ==
    LET p == full_mul(x, y) IN SubSeq(p, 9, 16) # Zero64

wrapping_add(x, y) == Propagate([k \in 1..8 |-> x[k] + y[k]], 1, 8, 0)

\* 80267270009 = 0x12B04D5779
HASH_A == <<121, 87, 77, 176, 18, 0, 0, 0>>
\* 257
HASH_B == <<1, 1, 0, 0, 0, 0, 0, 0>>
\* 100003 = 0x186A3
SEPARATOR == <<163, 134, 1, 0, 0, 0, 0, 0>>

usize_MAX == -1
u64_MAX == -1

----------------------------------------------------------------------------
(* BitState and its hash update. *)

BitState0 == [last_index |-> 0, last_state |-> 0, cur_state |-> 0]

\* the test on last_index left out
switch_happens_any_index(st) == st.last_state # st.cur_state

switch_happens(st) == st.last_index # 0 /\ st.last_state # st.cur_state

\* the previous state folded in instead of the current one
hash_step_prev_state(h, st) ==
    wrapping_add(
        wrapping_mul(
            wrapping_add(wrapping_mul(h, HASH_A), U64(st.last_index)),
            HASH_B),
        U64(st.last_state + 1))

hash_step(h, st) ==
    wrapping_add(
        wrapping_mul(
            wrapping_add(wrapping_mul(h, HASH_A), U64(st.last_index)),
            HASH_B),
        U64(st.cur_state + 1))

update_hash(st, h) == IF switch_happens(st) THEN hash_step(h, st) ELSE h

\* the transition update_hash folds in, appended to the slot's log
log_commit(st, lg) ==
    IF switch_happens(st)
    THEN Append(lg, <<st.last_index, st.last_state, st.cur_state>>)
    ELSE lg

----------------------------------------------------------------------------
(* Header declarations. *)

None == <<>>
Some(i) == <<i>>

NoIndex == [kind |-> "None", msb |-> 0, lsb |-> 0]
BitSelect(i) == [kind |-> "BitSelect", msb |-> i, lsb |-> i]
Range(m, l) == [kind |-> "Range", msb |-> m, lsb |-> l]

Var(p, ix, c, sz) == [path |-> p, index |-> ix, code |-> c, size |-> sz]

HierName(p, bit) == <<p, bit>>

first_bit(index) ==
    CASE index.kind = "None" -> None
      [] index.kind = "BitSelect" -> Some(index.msb)
      [] index.kind = "Range" -> Some(index.msb)

\* a descending range enumerated from lsb upward, the offsets still counted
\* from msb
enumerate_bits_lsb_first(index) ==
    CASE index.kind = "None" -> << [idx |-> None, offset |-> 0] >>
      [] index.kind = "BitSelect" -> << [idx |-> Some(index.msb), offset |-> 0] >>
      [] index.kind = "Range" ->
            IF index.msb > index.lsb
            THEN [k \in 1..(index.msb - index.lsb + 1) |->
                     [idx |-> Some(index.lsb + (k - 1)),
                      offset |-> index.msb - index.lsb - (k - 1)]]
            ELSE [k \in 1..(index.lsb - index.msb + 1) |->
                     [idx |-> Some(index.msb + (k - 1)), offset |-> k - 1]]

\* the calls f(idx, offset) that enumerate_bits makes, in order
enumerate_bits(index) ==
    CASE index.kind = "None" -> << [idx |-> None, offset |-> 0] >>
      [] index.kind = "BitSelect" -> << [idx |-> Some(index.msb), offset |-> 0] >>
      [] index.kind = "Range" ->
            IF index.msb > index.lsb
            THEN [k \in 1..(index.msb - index.lsb + 1) |->
                     [idx |-> Some(index.msb - (k - 1)), offset |-> k - 1]]
            ELSE [k \in 1..(index.lsb - index.msb + 1) |->
                     [idx |-> Some(index.msb + (k - 1)), offset |-> k - 1]]

----------------------------------------------------------------------------
(* The insertion-ordered map name2id. *)

position(n2i, name) ==
    IF \E k \in 1..Len(n2i) : n2i[k].name = name
    THEN CHOOSE k \in 1..Len(n2i) : n2i[k].name = name
    ELSE 0

\* a lookup that never finds the name
get_never_hits(n2i, name) == None

\* IndexMap::get: Some(slot) or None
get(n2i, name) ==
    IF position(n2i, name) = 0 THEN None ELSE Some(n2i[position(n2i, name)].slot)

\* IndexMap::insert: a new key is appended, an old key keeps its place
insert(n2i, name, slot) ==
    IF position(n2i, name) = 0
    THEN Append(n2i, [name |-> name, slot |-> slot])
    ELSE [n2i EXCEPT ![position(n2i, name)].slot = slot]

RECURSIVE insert_bits(_, _, _, _, _)
insert_bits(n2i, p, bits, start, k) ==
    IF k > Len(bits) THEN n2i
    ELSE insert_bits(insert(n2i, HierName(p, bits[k].idx), start + bits[k].offset),
                     p, bits, start, k + 1)

zeros(n) == [k \in 1..n |-> Zero64]
unassigned(n) == [k \in 1..n |-> u64_MAX]

\* lines 228-251: the start slot of a declared variable and the database after it
resolve(n2i, hs, hu, i2h, var) ==
    LET found == get(n2i, HierName(var.path, first_bit(var.index)))
    IN  IF found # None
        THEN [start |-> found[1], name2id |-> n2i, hashes |-> hs, hash_used |-> hu]
        ELSE LET fresh == i2h[var.code] = usize_MAX
                 start == IF fresh THEN Len(hs) ELSE i2h[var.code]
             IN  [start |-> start,
                  name2id |-> insert_bits(n2i, var.path, enumerate_bits(var.index),
                                          start, 1),
                  hashes |-> IF fresh THEN hs \o zeros(var.size) ELSE hs,
                  hash_used |-> IF fresh THEN hu \o unassigned(var.size) ELSE hu]

\* line 254-255: the broken alias check
alias_ok(hu, start, var) == hu[start + 1] = var.code \/ hu[start + 1] = u64_MAX

\* the check of lines 259-260 left out
code_ok_unchecked(i2h, start, var) == TRUE

\* line 259-260: the code's start slot is unset or the same
code_ok(i2h, start, var) == i2h[var.code] = start \/ i2h[var.code] = usize_MAX

----------------------------------------------------------------------------
(* The body pass. *)

Timestamp(t) == [kind |-> "Timestamp", t |-> t, id |-> 0, bits |-> <<>>]
Value(id, bits) == [kind |-> "Value", t |-> 0, id |-> id, bits |-> bits]

\* the quantization without the + 1
strobe_index_from_zero(t, start, period) ==
    IF t <= start THEN 0 ELSE (t - start) \div period

\* lines 307-308; the + 1 wraps from u64::MAX to 0 (the quotient of a
\* difference written as a negative integer is right for period 1 only)
strobe_index(t, start, period) ==
    IF ule(t, start) THEN 0 ELSE (t - start) \div period + 1

\* line 308: the + 1 does not fit 64 bits
index_overflows(t, start, period) ==
    ~ule(t, start) /\ (t - start) \div period = u64_MAX

\* a change in the state's own strobe index dropped instead of stored
drive_bit_keep_first(r, slot, bit, t) ==
    LET st == r.states[slot]
    IN  IF st.last_index = t
        THEN r
        ELSE [states |-> [r.states EXCEPT ![slot] =
                             [last_index |-> t, last_state |-> st.cur_state,
                              cur_state |-> bit]],
              hashes |-> [r.hashes EXCEPT ![slot] = update_hash(st, @)],
              committed |-> [r.committed EXCEPT ![slot] = log_commit(st, @)],
              ok |-> r.ok]

\* last_state left as it was when the state moves to another strobe index
drive_bit_stale_last_state(r, slot, bit, t) ==
    LET st == r.states[slot]
    IN  IF st.last_index = t
        THEN [r EXCEPT !.states[slot].cur_state = bit]
        ELSE [states |-> [r.states EXCEPT ![slot] =
                             [last_index |-> t, last_state |-> st.last_state,
                              cur_state |-> bit]],
              hashes |-> [r.hashes EXCEPT ![slot] = update_hash(st, @)],
              committed |-> [r.committed EXCEPT ![slot] = log_commit(st, @)],
              ok |-> r.ok]

\* lines 313-322: one bit of a value change; r holds states, hashes, committed
drive_bit(r, slot, bit, t) ==
    LET st == r.states[slot]
    IN  IF st.last_index = t
        THEN [r EXCEPT !.states[slot].cur_state = bit]
        ELSE [states |-> [r.states EXCEPT ![slot] =
                             [last_index |-> t, last_state |-> st.cur_state,
                              cur_state |-> bit]],
              hashes |-> [r.hashes EXCEPT ![slot] = update_hash(st, @)],
              committed |-> [r.committed EXCEPT ![slot] = log_commit(st, @)],
              ok |-> r.ok]

\* the bits of a value change driven last bit first
RECURSIVE drive_bits_lsb_first(_, _, _, _, _)
drive_bits_lsb_first(r, id_st, bits, i, t) ==
    IF i > Len(bits) THEN r
    ELSE IF id_st + i > Len(r.states) THEN [r EXCEPT !.ok = FALSE]
    ELSE drive_bits_lsb_first(drive_bit(r, id_st + i, bits[Len(bits) + 1 - i], t),
                              id_st, bits, i + 1, t)

\* lines 312-323: the loop over the bits; it stops at the first slot out of range
RECURSIVE drive_bits(_, _, _, _, _)
drive_bits(r, id_st, bits, i, t) ==
    IF i > Len(bits) THEN r
    ELSE IF id_st + i > Len(r.states) THEN [r EXCEPT !.ok = FALSE]
    ELSE drive_bits(drive_bit(r, id_st + i, bits[i], t), id_st, bits, i + 1, t)

\* lines 327-331
flush_hashes(sts, hs) == [k \in 1..Len(hs) |-> update_hash(sts[k], hs[k])]
flush_log(sts, lg) == [k \in 1..Len(lg) |-> log_commit(sts[k], lg[k])]

\* lines 291-293: the separator; with overflow checks the loop stops at the
\* first product that does not fit
first_overflow(hs) ==
    IF \E k \in 1..Len(hs) : mul_overflows(hs[k], SEPARATOR)
    THEN CHOOSE k \in 1..Len(hs) :
            /\ mul_overflows(hs[k], SEPARATOR)
            /\ \A j \in 1..(k - 1) : ~mul_overflows(hs[j], SEPARATOR)
    ELSE 0

separate(hs, checks) ==
    LET stop == IF checks THEN first_overflow(hs) ELSE 0
    IN  [k \in 1..Len(hs) |->
            IF stop = 0 \/ k < stop THEN wrapping_mul(hs[k], SEPARATOR) ELSE hs[k]]

----------------------------------------------------------------------------
(* The inputs the model draws from. *)

Codes == 0..1
BitCodes == {0, 1}

\* declarations of the header-centred specification
HeaderVars ==
    {Var(p, NoIndex, c, sz) : p \in {"a", "b"}, c \in Codes, sz \in {1, 2}}
    \cup {Var(p, BitSelect(0), c, 1) : p \in {"a", "b"}, c \in Codes}
    \cup {Var(p, Range(1, 0), c, 2) : p \in {"a", "b"}, c \in Codes}
    \cup {Var(p, Range(0, 1), c, 2) : p \in {"a", "b"}, c \in Codes}

\* declarations of the body-centred specification: two scalar nets
BodyVars == {Var("x", NoIndex, 0, 1), Var("y", NoIndex, 1, 1)}

\* the declaration of the single-net specification
OneVar == {Var("x", NoIndex, 0, 1)}

Times == {0, 10, 11, 12, 20, 30}
FewTimes == {10, 20, 30}
StrobeStarts == {0, 10}
StrobePeriods == {0, 10}

BitSeqs == {<<b>> : b \in BitCodes}

----------------------------------------------------------------------------
(* The state after HashDB::new(), before any feed_vcd. *)

NoFile == [header |-> <<>>, body |-> <<>>, start |-> 0]

\* simmatch is not running
MatcherIdle ==
    /\ db1 = [name2id |-> <<>>, hashes |-> <<>>]
    /\ db2 = [name2id |-> <<>>, hashes |-> <<>>]
    /\ ignore_size = 0
    /\ pool = <<>>
    /\ scanned = 0
    /\ stdout = <<>>
    /\ mpc = "idle"

Init ==
    /\ file = NoFile
    /\ name2id = <<>>
    /\ hashes = <<>>
    /\ pc = "idle"
    /\ fail = ""
    /\ overflow_checks \in BOOLEAN
    /\ strobe_start = 0
    /\ strobe_period = 0
    /\ id2hash = [c \in Codes |-> usize_MAX]
    /\ hash_used = <<>>
    /\ states = <<>>
    /\ cur_time_id = 0
    /\ old_name2id = <<>>
    /\ old_hashes = <<>>
    /\ headers = <<>>
    /\ tokens = <<>>
    /\ committed = <<>>
    /\ db_output = None
    /\ MatcherIdle

----------------------------------------------------------------------------
(* feed_vcd, step by step. *)

\* lines 286-206: entry, the separator, opening the trace
FeedBegin(ss, sp, maxFeeds) ==
    /\ pc \in {"idle", "done"}
    /\ Len(headers) < maxFeeds
    /\ strobe_start' = ss
    /\ strobe_period' = sp
    /\ old_name2id' = name2id
    /\ old_hashes' = hashes
    /\ hashes' = separate(hashes, overflow_checks)
    /\ IF overflow_checks /\ first_overflow(hashes) # 0
       THEN /\ pc' = "panic"
            /\ fail' = "mul_overflow"
            /\ UNCHANGED <<id2hash, hash_used, headers>>
       ELSE /\ pc' = "header"
            /\ fail' = ""
            /\ id2hash' = [c \in Codes |-> usize_MAX]
            /\ hash_used' = unassigned(Len(hashes))
            /\ headers' = Append(headers, <<>>)
    /\ states' = <<>>
    /\ cur_time_id' = 0
    /\ tokens' = <<>>
    /\ committed' = <<>>
    /\ UNCHANGED <<name2id, overflow_checks, file>>
    /\ UNCHANGED <<db_output, matcher_vars>>

\* lines 219-262: the callback on one declared variable
HeaderVar(var) ==
    /\ pc = "header"
    /\ Len(headers[Len(headers)]) < MaxVars
    /\ LET r == resolve(name2id, hashes, hash_used, id2hash, var)
       IN  /\ name2id' = r.name2id
           /\ hashes' = r.hashes
           /\ headers' = [headers EXCEPT ![Len(headers)] = Append(@, var)]
           /\ IF r.start + 1 > Len(r.hash_used)
              THEN /\ pc' = "panic"
                   /\ fail' = "index_out_of_bounds"
                   /\ hash_used' = r.hash_used
                   /\ UNCHANGED id2hash
              ELSE IF ~alias_ok(r.hash_used, r.start, var)
              THEN /\ pc' = "panic"
                   /\ fail' = "alias_assert"
                   /\ hash_used' = r.hash_used
                   /\ UNCHANGED id2hash
              ELSE IF ~code_ok(id2hash, r.start, var)
              THEN /\ pc' = "panic"
                   /\ fail' = "code_assert"
                   /\ hash_used' = [r.hash_used EXCEPT ![r.start + 1] = var.code]
                   /\ UNCHANGED id2hash
              ELSE /\ hash_used' = [r.hash_used EXCEPT ![r.start + 1] = var.code]
                   /\ id2hash' = [id2hash EXCEPT ![var.code] = r.start]
                   /\ UNCHANGED <<pc, fail>>
    /\ UNCHANGED <<overflow_checks, strobe_start, strobe_period, states, cur_time_id,
                   old_name2id, old_hashes, tokens, committed, file>>
    /\ UNCHANGED <<db_output, matcher_vars>>

\* lines 264-302: the header pass returns, the body pass starts
HeaderEnd ==
    /\ pc = "header"
    /\ pc' = "body"
    /\ states' = [k \in 1..Len(hashes) |-> BitState0]
    /\ committed' = [k \in 1..Len(hashes) |-> <<>>]
    /\ cur_time_id' = 0
    /\ UNCHANGED <<name2id, hashes, fail, overflow_checks, strobe_start, strobe_period,
                   id2hash, hash_used, old_name2id, old_hashes, headers, tokens,
                   file>>
    /\ UNCHANGED <<db_output, matcher_vars>>

\* the time of the last Timestamp token of the body read so far (-1: none yet)
RECURSIVE last_time(_)
last_time(toks) ==
    IF toks = <<>> THEN -1
    ELSE IF toks[Len(toks)].kind = "Timestamp" THEN toks[Len(toks)].t
    ELSE last_time(SubSeq(toks, 1, Len(toks) - 1))

\* t is later than every timestamp read so far
later(t, toks) ==
    (\E k \in 1..Len(toks) : toks[k].kind = "Timestamp") => ult(last_time(toks), t)

\* lines 305-309; the trace's timestamps increase
BodyTimestamp(t, maxTokens) ==
    /\ pc = "body"
    /\ Len(tokens) < maxTokens
    /\ later(t, tokens)
    /\ tokens' = Append(tokens, Timestamp(t))
    /\ IF ~ule(t, strobe_start) /\ strobe_period = 0
       THEN /\ pc' = "panic"
            /\ fail' = "divide_by_zero"
            /\ UNCHANGED cur_time_id
       ELSE IF overflow_checks /\ index_overflows(t, strobe_start, strobe_period)
       THEN /\ pc' = "panic"
            /\ fail' = "add_overflow"
            /\ UNCHANGED cur_time_id
       ELSE /\ cur_time_id' = strobe_index(t, strobe_start, strobe_period)
            /\ UNCHANGED <<pc, fail>>
    /\ UNCHANGED <<name2id, hashes, overflow_checks, strobe_start, strobe_period,
                   id2hash, hash_used, states, old_name2id, old_hashes, headers,
                   committed, file>>
    /\ UNCHANGED <<db_output, matcher_vars>>

\* lines 310-324
BodyValue(id, bits, maxTokens) ==
    /\ pc = "body"
    /\ Len(tokens) < maxTokens
    /\ id2hash[id] # usize_MAX
    /\ tokens' = Append(tokens, Value(id, bits))
    /\ LET r == drive_bits([states |-> states, hashes |-> hashes,
                            committed |-> committed, ok |-> TRUE],
                           id2hash[id], bits, 1, cur_time_id)
       IN  /\ states' = r.states
           /\ hashes' = r.hashes
           /\ committed' = r.committed
           /\ IF r.ok
              THEN UNCHANGED <<pc, fail>>
              ELSE pc' = "panic" /\ fail' = "index_out_of_bounds"
    /\ UNCHANGED <<name2id, overflow_checks, strobe_start, strobe_period, id2hash,
                   hash_used, cur_time_id, old_name2id, old_hashes, headers, file>>
    /\ UNCHANGED <<db_output, matcher_vars>>

\* lines 327-332: end of the token stream, the flush, Ok(())
Flush ==
    /\ pc = "body"
    /\ pc' = "done"
    /\ hashes' = flush_hashes(states, hashes)
    /\ committed' = flush_log(states, committed)
    /\ UNCHANGED <<name2id, fail, overflow_checks, strobe_start, strobe_period,
                   id2hash, hash_used, states, cur_time_id, old_name2id, old_hashes,
                   headers, tokens, file>>
    /\ UNCHANGED <<db_output, matcher_vars>>

\* up to MaxFeeds traces over two scalar nets
Next ==
    \/ FeedBegin(10, 10, MaxFeeds)
    \/ \E var \in BodyVars : HeaderVar(var)
    \/ HeaderEnd
    \/ \E t \in FewTimes : BodyTimestamp(t, MaxTokens)
    \/ \E id \in Codes, bits \in BitSeqs : BodyValue(id, bits, MaxTokens)
    \/ Flush

Spec == Init /\ [][Next]_vars

\* up to MaxFeeds traces that hold a header and no body token
NextHeader ==
    \/ FeedBegin(0, 10, MaxFeeds)
    \/ \E var \in HeaderVars : HeaderVar(var)
    \/ HeaderEnd
    \/ Flush

SpecHeader == Init /\ [][NextHeader]_vars

\* one trace over one scalar net, with a longer body
NextBody ==
    \/ \E ss \in StrobeStarts, sp \in StrobePeriods : FeedBegin(ss, sp, 1)
    \/ \E var \in OneVar : HeaderVar(var)
    \/ HeaderEnd
    \/ \E t \in Times : BodyTimestamp(t, MaxBodyTokens)
    \/ \E id \in Codes, bits \in BitSeqs : BodyValue(id, bits, MaxBodyTokens)
    \/ Flush

----------------------------------------------------------------------------
(* One trace fixed beforehand: net x (code 0) carries a stream of value       *)
(* changes, net y (code 1) the same stream with one run of changes that fall  *)
(* in one strobe period replaced by a single change to the run's last value.  *)

CollapseTimes == <<20, 21, 30>>
CollapseStarts == {10, 20}
CollapsePeriod == 10

RECURSIVE BitLists(_)
BitLists(n) ==
    IF n = 0 THEN {<<>>}
    ELSE BitLists(n - 1)
         \cup {Append(l, b) : l \in {m \in BitLists(n - 1) : Len(m) = n - 1},
                              b \in BitCodes}

\* the changes of a raw stream (a burst of bits per timestamp), flattened
RECURSIVE flatten(_, _)
flatten(raw, k) ==
    IF k > Len(raw) THEN <<>>
    ELSE [j \in 1..Len(raw[k]) |-> [t |-> CollapseTimes[k], bit |-> raw[k][j]]]
         \o flatten(raw, k + 1)

SameStrobe(e1, e2, ss) ==
    strobe_index(e1.t, ss, CollapsePeriod) = strobe_index(e2.t, ss, CollapsePeriod)

\* the runs i..j of at least two changes in one strobe period
Runs(evs, ss) ==
    {r \in (1..Len(evs)) \X (1..Len(evs)) :
        r[1] < r[2] /\ \A k \in r[1]..r[2] : SameStrobe(evs[k], evs[r[1]], ss)}

collapse(evs, r) ==
    SubSeq(evs, 1, r[1] - 1) \o <<evs[r[2]]>> \o SubSeq(evs, r[2] + 1, Len(evs))

RECURSIVE tokens_at(_, _, _, _)
tokens_at(evs, id, t, k) ==
    IF k > Len(evs) THEN <<>>
    ELSE (IF evs[k].t = t THEN <<Value(id, <<evs[k].bit>>)>> ELSE <<>>)
         \o tokens_at(evs, id, t, k + 1)

RECURSIVE body_of(_, _, _)
body_of(xs, ys, k) ==
    IF k > Len(CollapseTimes) THEN <<>>
    ELSE <<Timestamp(CollapseTimes[k])>>
         \o tokens_at(xs, 0, CollapseTimes[k], 1)
         \o tokens_at(ys, 1, CollapseTimes[k], 1)
         \o body_of(xs, ys, k + 1)

CollapseFilesFor(ss) ==
    UNION {
        {[header |-> <<Var("x", NoIndex, 0, 1), Var("y", NoIndex, 1, 1)>>,
          body |-> body_of(flatten(raw, 1), collapse(flatten(raw, 1), r), 1),
          start |-> ss]
            : r \in Runs(flatten(raw, 1), ss)}
        : raw \in [1..Len(CollapseTimes) -> BitLists(MaxBurst)]}

CollapseFiles == UNION {CollapseFilesFor(ss) : ss \in CollapseStarts}

InitCollapse ==
    /\ file \in CollapseFiles
    /\ name2id = <<>>
    /\ hashes = <<>>
    /\ pc = "idle"
    /\ fail = ""
    /\ overflow_checks = FALSE
    /\ strobe_start = 0
    /\ strobe_period = 0
    /\ id2hash = [c \in Codes |-> usize_MAX]
    /\ hash_used = <<>>
    /\ states = <<>>
    /\ cur_time_id = 0
    /\ old_name2id = <<>>
    /\ old_hashes = <<>>
    /\ headers = <<>>
    /\ tokens = <<>>
    /\ committed = <<>>
    /\ db_output = None
    /\ MatcherIdle

next_var == file.header[Len(headers[Len(headers)]) + 1]
next_token == file.body[Len(tokens) + 1]

\* feed_vcd reading the fixed file
NextCollapse ==
    \/ FeedBegin(file.start, CollapsePeriod, 1)
    \/ /\ pc = "header"
       /\ Len(headers[Len(headers)]) < Len(file.header)
       /\ HeaderVar(next_var)
    \/ /\ pc = "header"
       /\ Len(headers[Len(headers)]) = Len(file.header)
       /\ HeaderEnd
    \/ /\ pc = "body"
       /\ Len(tokens) < Len(file.body)
       /\ next_token.kind = "Timestamp"
       /\ BodyTimestamp(next_token.t, Len(file.body))
    \/ /\ pc = "body"
       /\ Len(tokens) < Len(file.body)
       /\ next_token.kind = "Value"
       /\ BodyValue(next_token.id, next_token.bits, Len(file.body))
    \/ /\ pc = "body"
       /\ Len(tokens) = Len(file.body)
       /\ Flush

SpecCollapse == InitCollapse /\ [][NextCollapse]_vars

\* a build without overflow checks
InitBody == Init /\ overflow_checks = FALSE

SpecBody == InitBody /\ [][NextBody]_vars

----------------------------------------------------------------------------
(* One trace over vectors: ranges in both directions, a one-bit range, and    *)
(* value changes of one and of four bits.                                     *)

VectorVars ==
    {Var("v", Range(3, 0), 0, 4), Var("v", Range(0, 3), 0, 4),
     Var("v", Range(2, 2), 0, 1), Var("w", NoIndex, 1, 1),
     Var("w", Range(3, 0), 1, 4)}

VectorBits == {<<0>>, <<1>>, <<1, 0, 1, 0>>, <<0, 1, 0, 1>>}

VecTimes == {10, 20}

NextVector ==
    \/ FeedBegin(0, 10, 1)
    \/ \E var \in VectorVars : HeaderVar(var)
    \/ HeaderEnd
    \/ \E t \in VecTimes : BodyTimestamp(t, MaxVecTokens)
    \/ \E id \in Codes, bits \in VectorBits : BodyValue(id, bits, MaxVecTokens)
    \/ Flush

SpecVector == InitBody /\ [][NextVector]_vars

----------------------------------------------------------------------------
(* One trace over one scalar net whose timestamps reach the top of the u64    *)
(* range; those are fed under strobe_period 1.                                *)

QuantTimes == {0, 5, 10, 11, 25, u64_MAX - 1, u64_MAX}
QuantStarts == {0, 10}
QuantPeriods == {1, 10}

NextQuant ==
    \/ \E ss \in QuantStarts, sp \in QuantPeriods : FeedBegin(ss, sp, 1)
    \/ \E var \in OneVar : HeaderVar(var)
    \/ HeaderEnd
    \/ \E t \in QuantTimes :
          /\ t < 0 => strobe_period = 1
          /\ BodyTimestamp(t, MaxTokens)
    \/ \E id \in Codes, bits \in BitSeqs : BodyValue(id, bits, MaxTokens)
    \/ Flush

SpecQuant == Init /\ [][NextQuant]_vars

----------------------------------------------------------------------------
(* simstrobe: load or create the database, feed one trace, write the result. *)

\* the databases --db-input can hold: none given, one net fed before, and one
\* net whose fingerprint no longer fits 64 bits once multiplied by 100003
InputDbs ==
    {[name2id |-> <<>>, hashes |-> <<>>],
     [name2id |-> <<[name |-> HierName("x", None), slot |-> 0]>>,
      hashes |-> <<U64(516)>>],
     [name2id |-> <<[name |-> HierName("x", None), slot |-> 0]>>,
      hashes |-> << <<232, 54, 52, 64, 7, 209, 37, 0>> >>]}

IngestVars == BodyVars \cup {Var("x", NoIndex, 1, 1)}

InitIngest ==
    /\ file = NoFile
    /\ \E db \in InputDbs : name2id = db.name2id /\ hashes = db.hashes
    /\ pc = "idle"
    /\ fail = ""
    /\ overflow_checks \in BOOLEAN
    /\ strobe_start = 0
    /\ strobe_period = 0
    /\ id2hash = [c \in Codes |-> usize_MAX]
    /\ hash_used = <<>>
    /\ states = <<>>
    /\ cur_time_id = 0
    /\ old_name2id = <<>>
    /\ old_hashes = <<>>
    /\ headers = <<>>
    /\ tokens = <<>>
    /\ committed = <<>>
    /\ db_output = None
    /\ MatcherIdle

\* lib.rs lines 192-195, 297, 303: opening or parsing the trace fails and
\* feed_vcd returns the error; the header is parsed before any variable is seen
IoFailure ==
    /\ \/ pc = "header" /\ headers[Len(headers)] = <<>>
       \/ pc = "body"
    /\ pc' = "error"
    /\ fail' = "io_error"
    /\ UNCHANGED <<name2id, hashes, overflow_checks, strobe_start, strobe_period,
                   id2hash, hash_used, states, cur_time_id, old_name2id, old_hashes,
                   headers, tokens, committed, file>>
    /\ UNCHANGED <<db_output, matcher_vars>>

\* the result of feed_vcd not unwrapped
feed_result_discarded == pc \in {"done", "error"}

\* simstrobe lines 43-44: feed_vcd(..).unwrap() returns
feed_returned_ok == pc = "done"

\* simstrobe lines 45-48: the output file is created and the database written
WriteDb ==
    /\ feed_returned_ok
    /\ db_output' = Some([name2id |-> name2id, hashes |-> hashes])
    /\ pc' = "exit"
    /\ UNCHANGED <<name2id, hashes, fail, overflow_checks, strobe_start,
                   strobe_period, id2hash, hash_used, states, cur_time_id,
                   old_name2id, old_hashes, headers, tokens, committed, file>>
    /\ UNCHANGED matcher_vars

NextIngest ==
    \/ \E sp \in StrobePeriods : FeedBegin(10, sp, 1)
    \/ \E var \in IngestVars : HeaderVar(var)
    \/ HeaderEnd
    \/ \E t \in FewTimes : BodyTimestamp(t, MaxTokens)
    \/ \E id \in Codes, bits \in BitSeqs : BodyValue(id, bits, MaxTokens)
    \/ Flush
    \/ IoFailure
    \/ WriteDb

SpecIngest == InitIngest /\ [][NextIngest]_vars

----------------------------------------------------------------------------
(* simmatch: two databases grouped by fingerprint. *)

Fingerprints == {Zero64, U64(258), U64(516)}
MatchNames == {HierName("a", None), HierName("b", None)}
Caps == {1, 2}

\* the lists of up to n distinct names
RECURSIVE NameLists(_)
NameLists(n) ==
    IF n = 0 THEN {<<>>}
    ELSE NameLists(n - 1)
         \cup {Append(x[1], x[2]) :
                 x \in {y \in NameLists(n - 1) \X MatchNames :
                           /\ Len(y[1]) = n - 1
                           /\ \A k \in 1..Len(y[1]) : y[1][k] # y[2]}}

HashVectors == UNION {[1..n -> Fingerprints] : n \in 0..MaxSlots}

\* the databases a file can hold: distinct names, every slot below hashes.len()
Databases ==
    UNION {
        {[name2id |-> [k \in 1..Len(l) |-> [name |-> l[k], slot |-> sl[k]]],
          hashes |-> hs]
            : sl \in [1..Len(l) -> 0..(Len(hs) - 1)]}
        : l \in NameLists(MaxNames), hs \in HashVectors}

\* a lookup that finds every key vacant
pool_index_vacant(pl, h) == 0

\* IndexMap::entry: the position of the key, 0 when vacant
pool_index(pl, h) ==
    IF \E i \in 1..Len(pl) : pl[i].hash = h
    THEN CHOOSE i \in 1..Len(pl) : pl[i].hash = h
    ELSE 0

\* lines 43-47: the entry of the key, inserted empty when vacant, and the push
push(pl, h, side, hid) ==
    LET i == pool_index(pl, h)
    IN  IF i = 0
        THEN Append(pl, [hash |-> h,
                         left |-> IF side = 0 THEN <<hid>> ELSE <<>>,
                         right |-> IF side = 1 THEN <<hid>> ELSE <<>>])
        ELSE IF side = 0
        THEN [pl EXCEPT ![i].left = Append(@, hid)]
        ELSE [pl EXCEPT ![i].right = Append(@, hid)]

\* lines 56 and 61: both sides non-empty
matched(g) == Len(g.left) # 0 /\ Len(g.right) # 0

\* a cap that a side of exactly k names fails
within_threshold_strict(g, k) ==
    matched(g) /\ Len(g.left) < k /\ Len(g.right) < k

\* lines 61-63 and 67-69
within_threshold(g, k) ==
    matched(g) /\ Len(g.left) <= k /\ Len(g.right) <= k

filter_matched(pl) == SelectSeq(pl, matched)

filter_threshold(pl, k) == SelectSeq(pl, LAMBDA g : within_threshold(g, k))

InitMatch ==
    /\ file = NoFile
    /\ name2id = <<>>
    /\ hashes = <<>>
    /\ pc = "idle"
    /\ fail = ""
    /\ overflow_checks = FALSE
    /\ strobe_start = 0
    /\ strobe_period = 0
    /\ id2hash = [c \in Codes |-> usize_MAX]
    /\ hash_used = <<>>
    /\ states = <<>>
    /\ cur_time_id = 0
    /\ old_name2id = <<>>
    /\ old_hashes = <<>>
    /\ headers = <<>>
    /\ tokens = <<>>
    /\ committed = <<>>
    /\ db_output = None
    /\ db1 \in Databases
    /\ db2 \in Databases
    /\ ignore_size \in Caps
    /\ pool = <<>>
    /\ scanned = 0
    /\ stdout = <<>>
    /\ mpc = "scan"

\* lines 41-48: one iteration of the loop over db.name2id; base is the number
\* of entries the loops before it pushed
ScanEntry(db, side, base) ==
    /\ mpc = "scan"
    /\ scanned >= base
    /\ scanned - base < Len(db.name2id)
    /\ LET e == db.name2id[scanned - base + 1]
       IN  pool' = push(pool, db.hashes[e.slot + 1], side, e.name)
    /\ scanned' = scanned + 1
    /\ UNCHANGED <<engine_vars, db_output, db1, db2, ignore_size, stdout, mpc>>

\* lines 54-64: the three summary lines
PrintTotals ==
    /\ mpc = "scan"
    /\ scanned = Len(db1.name2id) + Len(db2.name2id)
    /\ stdout' = <<[line |-> "total bit types", count |-> Len(pool)],
                   [line |-> "matched bit types",
                    count |-> Len(filter_matched(pool))],
                   [line |-> "matched bit types (threshold)",
                    count |-> Len(filter_threshold(pool, ignore_size))]>>
    /\ mpc' = "groups"
    /\ UNCHANGED <<engine_vars, db_output, db1, db2, ignore_size, pool, scanned>>

\* lines 66-73: one line per group that passes the filter, in pool order
PrintGroups ==
    /\ mpc = "groups"
    /\ stdout' = stdout \o
          [k \in 1..Len(filter_threshold(pool, ignore_size)) |->
              [line |-> "Hash",
               hash |-> filter_threshold(pool, ignore_size)[k].hash,
               left |-> filter_threshold(pool, ignore_size)[k].left,
               right |-> filter_threshold(pool, ignore_size)[k].right]]
    /\ mpc' = "exit"
    /\ UNCHANGED <<engine_vars, db_output, db1, db2, ignore_size, pool, scanned>>

NextMatch ==
    \/ ScanEntry(db1, 0, 0)
    \/ ScanEntry(db2, 1, Len(db1.name2id))
    \/ PrintTotals
    \/ PrintGroups

SpecMatch == InitMatch /\ [][NextMatch]_vars

----------------------------------------------------------------------------
(* Helpers of the properties. *)

cur_header == IF headers = <<>> THEN <<>> ELSE headers[Len(headers)]

last_var == cur_header[Len(cur_header)]

same_net(v, w) == v.path = w.path /\ first_bit(v.index) = first_bit(w.index)

----------------------------------------------------------------------------
(* The header pass. *)

\* C1: after any sequence of ingestions every slot stored in name2id is below
\* hashes.len().
C1_SlotsInRange ==
    pc \in {"idle", "done"} =>
        \A k \in 1..Len(name2id) : name2id[k].slot < Len(hashes)

\* trace 1 declared two names under one code, trace 2 declares the same two
\* names under two distinct codes
AliasSplitFed ==
    /\ Len(headers) = 2
    /\ Len(headers[1]) = 2
    /\ Len(headers[2]) = 2
    /\ headers[1][1].code = headers[1][2].code
    /\ headers[1][1].path # headers[1][2].path
    /\ headers[2][1].code # headers[2][2].code
    /\ \A k \in 1..2 : /\ same_net(headers[2][k], headers[1][k])
                       /\ headers[2][k].index = headers[1][k].index
                       /\ headers[2][k].size = headers[1][k].size

\* C2: an alias split across two traces is ingested without a fatal assertion
\* and without allocating slots.
C2_AliasSplitCompletes ==
    AliasSplitFed => pc # "panic" /\ Len(hashes) = Len(old_hashes)

\* every declaration of the current header so far was made, with the same
\* width and code, by the previous trace
SameDeclarationsAgain ==
    /\ Len(headers) >= 2
    /\ \A k \in 1..Len(cur_header) :
          \E j \in 1..Len(headers[Len(headers) - 1]) :
             headers[Len(headers) - 1][j] = cur_header[k]

\* C8: re-declaring the names of the previous ingestion with the same widths
\* and codes allocates no slot and leaves name2id (keys, slots, order) as it was.
C8_SlotReuse ==
    SameDeclarationsAgain =>
        Len(hashes) = Len(old_hashes) /\ name2id = old_name2id

C8_Witness ==
    /\ pc = "done"
    /\ Len(headers) = 2
    /\ Len(headers[1]) = 2
    /\ headers[2] = headers[1]
    /\ headers[1][1].index.kind = "Range"
    /\ headers[1][1].path # headers[1][2].path
    /\ Len(hashes) >= 3

WidthMismatchDeclared ==
    /\ Len(headers) >= 2
    /\ cur_header # <<>>
    /\ \E f \in 1..(Len(headers) - 1) : \E j \in 1..Len(headers[f]) :
          /\ same_net(headers[f][j], last_var)
          /\ headers[f][j].size # last_var.size

\* C10: re-declaring a stored name with another width ends the ingestion in a
\* fatal assertion.
C10_WidthMismatchPanics == WidthMismatchDeclared => pc = "panic"

----------------------------------------------------------------------------
(* The body pass. *)

\* the value changes of a token stream, each with the time it occurs at
\* (-1 before the first Timestamp token)
RECURSIVE changes_from(_, _, _)
changes_from(toks, k, t) ==
    IF k > Len(toks) THEN <<>>
    ELSE IF toks[k].kind = "Timestamp" THEN changes_from(toks, k + 1, toks[k].t)
    ELSE << <<t, toks[k].id, toks[k].bits>> >> \o changes_from(toks, k + 1, t)

value_changes == changes_from(tokens, 1, -1)

last_token == tokens[Len(tokens)]

\* scalar x of code 0 alone in the database, strobe_start 0, strobe_period 10
ScalarX ==
    /\ name2id = << [name |-> HierName("x", None), slot |-> 0] >>
    /\ strobe_start = 0
    /\ strobe_period = 10

\* scenario 1: t=10 -> 1, t=20 -> 0, t=30 -> 1
ThreeStrobes ==
    /\ pc = "done"
    /\ ScalarX
    /\ value_changes = << <<10, 0, <<1>>>>, <<20, 0, <<0>>>>, <<30, 0, <<1>>>> >>

\* scenario 2: t=10 -> 1, t=11 -> 0, t=12 -> 1
OneStrobe ==
    /\ pc = "done"
    /\ ScalarX
    /\ value_changes = << <<10, 0, <<1>>>>, <<11, 0, <<0>>>>, <<12, 0, <<1>>>> >>

\* a value change was just read at a timestamp 10*k, k >= 1
ChangeAtTen ==
    /\ pc = "body"
    /\ ScalarX
    /\ tokens # <<>>
    /\ last_token.kind = "Value"
    /\ last_time(tokens) >= 10
    /\ last_time(tokens) % 10 = 0

\* C3 as stated: a change at timestamp 10*k is committed under strobe index k;
\* scenario 1 commits (1,0,1), (2,1,0), (3,0,1) and scenario 2 commits (1,0,1)
\* alone, the fingerprints being the folds of those.
C3_IndexK ==
    /\ ChangeAtTen => states[1].last_index = last_time(tokens) \div 10
    /\ ThreeStrobes =>
          /\ committed[1] = << <<1, 0, 1>>, <<2, 1, 0>>, <<3, 0, 1>> >>
          /\ hashes[1] = <<3, 35, 207, 219, 223, 201, 147, 47>>
    /\ OneStrobe =>
          /\ committed[1] = << <<1, 0, 1>> >>
          /\ hashes[1] = <<3, 1, 0, 0, 0, 0, 0, 0>>

\* C3 amended: a change at timestamp 10*k is committed under strobe index k + 1;
\* scenario 1 commits (2,0,1), (3,1,0), (4,0,1) with fingerprint
\* 3619865087342966702 and scenario 2 commits (2,0,1) alone with fingerprint
\* (0*A + 2)*B + 2 = 516.
C3_IndexKPlusOne ==
    /\ ChangeAtTen => states[1].last_index = last_time(tokens) \div 10 + 1
    /\ ThreeStrobes =>
          /\ committed[1] = << <<2, 0, 1>>, <<3, 1, 0>>, <<4, 0, 1>> >>
          /\ hashes[1] = <<174, 119, 234, 57, 30, 88, 60, 50>>
    /\ OneStrobe =>
          /\ committed[1] = << <<2, 0, 1>> >>
          /\ hashes[1] = <<4, 2, 0, 0, 0, 0, 0, 0>>

C3_Witness == ThreeStrobes

----------------------------------------------------------------------------
(* The commit rule, against 64-bit arithmetic on four 16-bit limbs. *)

Limbs(x) == [j \in 1..4 |-> x[2 * j - 1] + 256 * x[2 * j]]

RECURSIVE RefCarry(_, _, _)
RefCarry(cols, k, c) ==
    IF k > 4 THEN <<>>
    ELSE LET v == cols[k] + c
         IN  <<v % 65536>> \o RefCarry(cols, k + 1, v \div 65536)

\* l * m for m below 2^13
RefScale(l, m) == RefCarry([k \in 1..4 |-> l[k] * m], 1, 0)
RefAdd(l1, l2) == RefCarry([k \in 1..4 |-> l1[k] + l2[k]], 1, 0)
RefSmall(n) == <<n % 65536, n \div 65536, 0, 0>>

\* 80267270009 = 1913 + 4096 * (1237 + 4096 * (688 + 4096))
RefTimesA(l) ==
    RefAdd(RefScale(l, 1913),
           RefScale(RefAdd(RefScale(l, 1237),
                           RefScale(RefAdd(RefScale(l, 688), RefScale(l, 4096)),
                                    4096)),
                    4096))

\* 257 = 256 + 1
RefTimesB(l) == RefAdd(RefScale(l, 256), l)

\* ((h*A + last_strobe)*B + (cur_state + 1)) mod 2^64
RefCommit(h, last_strobe, cur_state) ==
    RefAdd(RefTimesB(RefAdd(RefTimesA(Limbs(h)), RefSmall(last_strobe))),
           RefSmall(cur_state + 1))

\* this step commits the bit state of slot s: the flush, or a value change
\* that reaches s in another strobe index than the state's
Commits(s) ==
    \/ pc = "body" /\ pc' = "done"
    \/ /\ pc = "body"
       /\ Len(tokens') = Len(tokens) + 1
       /\ tokens'[Len(tokens')].kind = "Value"
       /\ s > id2hash[tokens'[Len(tokens')].id]
       /\ s <= id2hash[tokens'[Len(tokens')].id] + Len(tokens'[Len(tokens')].bits)
       /\ states[s].last_index # cur_time_id

\* C4: a commit is skipped exactly when last_strobe = 0 or last_state =
\* cur_state; otherwise h becomes ((h*A + last_strobe)*B + cur_state + 1) mod 2^64.
C4_CommitRule ==
    [][\A s \in 1..Len(states) :
          Commits(s) =>
             IF states[s].last_index = 0 \/ states[s].last_state = states[s].cur_state
             THEN hashes'[s] = hashes[s]
             ELSE /\ Limbs(hashes'[s]) =
                        RefCommit(hashes[s], states[s].last_index, states[s].cur_state)
                  /\ hashes'[s] # hashes[s]]_vars

\* three commits, the last two of which wrapped
C4_Witness ==
    /\ pc = "done"
    /\ Len(committed) = 1
    /\ Len(committed[1]) = 3
    /\ hashes[1][8] # 0

----------------------------------------------------------------------------
(* The separator and the pre-strobe interval. *)

\* 100003 = 24 * 4096 + 1699
RefTimesC(l) == RefAdd(RefScale(RefScale(l, 24), 4096), RefScale(l, 1699))

\* a trace with a header and no token was ingested
EmptyTraceFed == pc = "done" /\ tokens = <<>>

\* C5: feeding a header-only trace never aborts on the separator's overflow and
\* leaves every old fingerprint at old * 100003 mod 2^64 and every new slot at 0.
C5_SeparatorLaw ==
    /\ fail # "mul_overflow"
    /\ EmptyTraceFed =>
          \A k \in 1..Len(hashes) :
             IF k <= Len(old_hashes)
             THEN Limbs(hashes[k]) = RefTimesC(Limbs(old_hashes[k]))
             ELSE hashes[k] = Zero64

\* the same law for the traces whose ingestion returns
C5_LawWhenReturning ==
    EmptyTraceFed =>
        \A k \in 1..Len(hashes) :
           IF k <= Len(old_hashes)
           THEN Limbs(hashes[k]) = RefTimesC(Limbs(old_hashes[k]))
           ELSE hashes[k] = Zero64

\* every value change of the trace so far lies at or before strobe_start, or
\* before the first Timestamp token
AllChangesPreStrobe ==
    \A k \in 1..Len(value_changes) : value_changes[k][1] <= strobe_start

\* the bit a value change drives into slot s (<<>> when it does not reach s)
bit_for(ch, s) ==
    IF id2hash[ch[2]] < s /\ s <= id2hash[ch[2]] + Len(ch[3])
    THEN <<ch[3][s - id2hash[ch[2]]]>>
    ELSE <<>>

\* the value slot s holds when the pre-strobe interval ends
RECURSIVE pre_strobe_value(_, _, _)
pre_strobe_value(chs, s, k) ==
    IF k = 0 THEN 0
    ELSE IF chs[k][1] <= strobe_start /\ bit_for(chs[k], s) # <<>>
    THEN bit_for(chs[k], s)[1]
    ELSE pre_strobe_value(chs, s, k - 1)

\* C6: no transition is committed with strobe index 0; a trace whose changes
\* all lie in the pre-strobe interval leaves the separator-multiplied old
\* fingerprints; the pre-strobe changes only give the previous state of the
\* first committed transition.
C6_PreStrobeSuppressed ==
    /\ \A s \in 1..Len(committed) : \A j \in 1..Len(committed[s]) :
          committed[s][j][1] # 0
    /\ (pc = "done" /\ AllChangesPreStrobe) =>
          \A k \in 1..Len(hashes) :
             hashes[k] = IF k <= Len(old_hashes)
                         THEN wrapping_mul(old_hashes[k], SEPARATOR)
                         ELSE Zero64
    /\ \A s \in 1..Len(committed) :
          committed[s] # <<>> =>
             committed[s][1][2] = pre_strobe_value(value_changes, s, Len(value_changes))

\* a second trace changed an already fingerprinted bit to 1 at strobe_start
C6_Witness ==
    /\ pc = "done"
    /\ Len(headers) = 2
    /\ AllChangesPreStrobe
    /\ old_hashes # <<>>
    /\ old_hashes[1] # Zero64
    /\ hashes[1] # Zero64
    /\ \E k \in 1..Len(value_changes) :
          /\ value_changes[k][1] = strobe_start
          /\ bit_for(value_changes[k], 1) = <<1>>

----------------------------------------------------------------------------
(* Intra-strobe collapse. *)

\* the changes of code id so far, each as <<strobe index, bit>>
RECURSIVE events_of(_, _, _)
events_of(chs, id, k) ==
    IF k > Len(chs) THEN <<>>
    ELSE (IF chs[k][2] = id
          THEN << <<strobe_index(chs[k][1], strobe_start, strobe_period),
                    chs[k][3][1]>> >>
          ELSE <<>>)
         \o events_of(chs, id, k + 1)

\* ys is xs with one run of changes in one strobe index replaced by a single
\* change, in that index, to the run's last value
IsCollapseOf(ys, xs) ==
    \E i \in 1..Len(xs), j \in 1..Len(xs) :
       /\ i < j
       /\ \A k \in i..j : xs[k][1] = xs[i][1]
       /\ ys = SubSeq(xs, 1, i - 1) \o <<xs[j]>> \o SubSeq(xs, j + 1, Len(xs))

\* x and y are scalar nets of their own slots, equal before this trace
TwoScalars ==
    /\ Len(hashes) = 2
    /\ id2hash[0] = 0
    /\ id2hash[1] = 1
    /\ strobe_period # 0
    /\ \/ old_hashes = <<>>
       \/ Len(old_hashes) = 2 /\ old_hashes[1] = old_hashes[2]

\* C7: replacing a run of changes of a bit within one strobe period by one
\* change to the run's last value gives the same final fingerprint.
C7_IntraStrobeCollapse ==
    (/\ pc = "done"
     /\ TwoScalars
     /\ IsCollapseOf(events_of(value_changes, 1, 1), events_of(value_changes, 0, 1)))
    => hashes[1] = hashes[2]

\* a run 1, 0 in strobe 1 between a pre-strobe change and a change in strobe 2
C7_Witness ==
    /\ pc = "done"
    /\ TwoScalars
    /\ events_of(value_changes, 0, 1) = << <<0, 1>>, <<1, 1>>, <<1, 0>>, <<2, 1>> >>
    /\ events_of(value_changes, 1, 1) = << <<0, 1>>, <<1, 0>>, <<2, 1>> >>
    /\ committed[1] = << <<1, 1, 0>>, <<2, 0, 1>> >>
    /\ committed[2] = committed[1]

----------------------------------------------------------------------------
(* Value changes against the declared widths. *)

\* the bits of a value change differ in number from the width of every
\* variable the header declared under its code
BitCountMismatch(tok) ==
    /\ tok.kind = "Value"
    /\ \A k \in 1..Len(cur_header) :
          cur_header[k].code = tok.id => cur_header[k].size # Len(tok.bits)

\* C11: in the body pass a value change whose number of bits differs from the
\* declared width of its code ends the ingestion and updates no slot's state
\* or fingerprint.
C11_BitCountRejected ==
    [][(/\ pc = "body"
        /\ Len(tokens') = Len(tokens) + 1
        /\ BitCountMismatch(tokens'[Len(tokens')]))
       => (pc' = "panic" /\ states' = states /\ hashes' = hashes)]_vars

----------------------------------------------------------------------------
(* The matcher. *)

\* the names of a database whose fingerprint is h, in name2id order
names_with(db, h) ==
    LET es == SelectSeq(db.name2id, LAMBDA e : db.hashes[e.slot + 1] = h)
    IN  [k \in 1..Len(es) |-> es[k].name]

\* the fingerprints with names on both sides, and those within the cap
BothSided == {h \in Fingerprints : names_with(db1, h) # <<>> /\ names_with(db2, h) # <<>>}

WithinCap ==
    {h \in BothSided : /\ Len(names_with(db1, h)) <= ignore_size
                       /\ Len(names_with(db2, h)) <= ignore_size}

DetailLines == SubSeq(stdout, 4, Len(stdout))

\* C12: summary 2 counts the fingerprints with names on both sides, summary 3
\* those of them with at most K names on each side, and a detail line is
\* printed for a fingerprint exactly when summary 3 counts it.
C12_MatcherCap ==
    mpc = "exit" =>
        /\ stdout[2].count = Cardinality(BothSided)
        /\ stdout[3].count = Cardinality(WithinCap)
        /\ Len(DetailLines) = Cardinality(WithinCap)
        /\ \A h \in Fingerprints :
              (\E k \in 1..Len(DetailLines) : DetailLines[k].hash = h)
                 <=> h \in WithinCap

\* a group over the cap on both sides: counted by summary 2 alone, no line
C12_Witness ==
    /\ mpc = "exit"
    /\ ignore_size = 1
    /\ \E h \in Fingerprints :
          Len(names_with(db1, h)) = 2 /\ Len(names_with(db2, h)) = 2
    /\ stdout[2].count = 1
    /\ stdout[3].count = 0
    /\ Len(stdout) = 3

\* the fingerprint of every entry, db1's before db2's
scan_order ==
    [k \in 1..Len(db1.name2id) |-> db1.hashes[db1.name2id[k].slot + 1]]
    \o [k \in 1..Len(db2.name2id) |-> db2.hashes[db2.name2id[k].slot + 1]]

\* a sequence without its repetitions
RECURSIVE first_occurrences(_, _)
first_occurrences(q, k) ==
    IF k > Len(q) THEN <<>>
    ELSE (IF \E j \in 1..(k - 1) : q[j] = q[k] THEN <<>> ELSE <<q[k]>>)
         \o first_occurrences(q, k + 1)

\* C18: once both databases are scanned, the groups are the fingerprints of
\* the entries in order of first occurrence (db1 before db2), each holding on
\* the left db1's names of that fingerprint and on the right db2's, in name2id
\* order; summary 1 is the number of distinct fingerprints referenced.
C18_MatcherGrouping ==
    mpc \in {"groups", "exit"} =>
        /\ [i \in 1..Len(pool) |-> pool[i].hash] = first_occurrences(scan_order, 1)
        /\ \A i \in 1..Len(pool) :
              /\ pool[i].left = names_with(db1, pool[i].hash)
              /\ pool[i].right = names_with(db2, pool[i].hash)
        /\ stdout[1].count =
              Cardinality({scan_order[k] : k \in 1..Len(scan_order)})

\* three groups: one of db1 alone, one of both, one first met in db2
C18_Witness ==
    /\ mpc = "exit"
    /\ Len(pool) = 3
    /\ pool[1].right = <<>>
    /\ Len(pool[2].left) = 1 /\ Len(pool[2].right) = 1
    /\ pool[3].left = <<>>
    /\ pool[2].left[1] # pool[2].right[1]

----------------------------------------------------------------------------
(* The ingest entry point. *)

\* C13: the output database is written only in a step taken after feed_vcd
\* returned success, and holds the database as fed; after an I/O or parse
\* error or a panic of feed_vcd no output file exists.
C13_NoPersistAfterFailure ==
    /\ [](pc \in {"panic", "error"} => db_output = None)
    /\ [](db_output # None =>
             /\ pc = "exit"
             /\ fail = ""
             /\ db_output = Some([name2id |-> name2id, hashes |-> hashes]))
    /\ [][db_output' # db_output => pc = "done"]_vars

\* the trace failed to parse in the body, after the separator and a value
\* change had altered the loaded database
C13_Witness ==
    /\ pc = "error"
    /\ fail = "io_error"
    /\ old_hashes # <<>>
    /\ hashes # old_hashes
    /\ \E s \in 1..Len(states) : states[s].cur_state = 1
    /\ db_output = None

----------------------------------------------------------------------------
(* Vectors. *)

\* this step is the header callback on a range none of whose bit names is
\* stored and whose code is unseen in this trace
NewRangeDeclared ==
    /\ pc = "header"
    /\ headers' # headers
    /\ LET var == cur_header'[Len(cur_header')]
       IN  /\ var.index.kind = "Range"
           /\ id2hash[var.code] = usize_MAX
           /\ \A k \in 1..Len(name2id) : name2id[k].name[1] # var.path

declared == cur_header'[Len(cur_header')]

width(index) ==
    IF index.msb >= index.lsb THEN index.msb - index.lsb + 1
    ELSE index.lsb - index.msb + 1

distance(m, i) == IF m >= i THEN m - i ELSE i - m

\* C14 as stated: the names of a new range [msb:lsb], msb >= lsb, are inserted
\* from lsb upward, the name of bit i at slot start + msb - i.
C14_LsbFirst ==
    [][(NewRangeDeclared /\ declared.index.msb >= declared.index.lsb) =>
          name2id' = name2id \o
             [k \in 1..width(declared.index) |->
                 [name |-> HierName(declared.path, Some(declared.index.lsb + k - 1)),
                  slot |-> Len(hashes) + declared.index.msb
                            - (declared.index.lsb + k - 1)]]]_vars

\* C14 amended: the names of a new range [msb:lsb], msb >= lsb, are inserted
\* from msb downward, the name of bit i at slot start + msb - i; v[3:0] at
\* slot 0 gives the order (v[3], 0), (v[2], 1), (v[1], 2), (v[0], 3).
C14_MsbFirst ==
    [][(NewRangeDeclared /\ declared.index.msb >= declared.index.lsb) =>
          name2id' = name2id \o
             [k \in 1..width(declared.index) |->
                 [name |-> HierName(declared.path, Some(declared.index.msb - (k - 1))),
                  slot |-> Len(hashes) + k - 1]]]_vars

\* v[3:0] declared in an empty database
C14_Witness ==
    /\ cur_header = <<Var("v", Range(3, 0), 0, 4)>>
    /\ name2id = <<[name |-> HierName("v", Some(3)), slot |-> 0],
                   [name |-> HierName("v", Some(2)), slot |-> 1],
                   [name |-> HierName("v", Some(1)), slot |-> 2],
                   [name |-> HierName("v", Some(0)), slot |-> 3]>>

\* this step reads and drives a value change of full width for a range
\* declared in this trace whose names lie at the code's slots
RangeDriven(var) ==
    /\ pc = "body"
    /\ Len(tokens') = Len(tokens) + 1
    /\ tokens'[Len(tokens')].kind = "Value"
    /\ tokens'[Len(tokens')].id = var.code
    /\ Len(tokens'[Len(tokens')].bits) = var.size
    /\ pc' = "body"
    /\ var.index.kind = "Range"
    /\ get(name2id, HierName(var.path, Some(var.index.msb))) = Some(id2hash[var.code])

bits_read == tokens'[Len(tokens')].bits

\* C15: the name of bit i of a new range [msb:lsb] lies at slot
\* start + |msb - i|, whatever the direction of the range, and a value change
\* drives bits[k] into the slot of the name k positions from msb.
C15_VectorLayout ==
    [][/\ NewRangeDeclared =>
             \A i \in 0..7 :
                distance(declared.index.msb, i) < width(declared.index)
                /\ distance(declared.index.lsb, i) < width(declared.index)
                => get(name2id', HierName(declared.path, Some(i)))
                      = Some(Len(hashes) + distance(declared.index.msb, i))
       /\ \A n \in 1..Len(cur_header) :
             RangeDriven(cur_header[n]) =>
                \A k \in 0..(cur_header[n].size - 1) :
                   \E i \in 0..7 :
                      /\ distance(cur_header[n].index.msb, i) = k
                      /\ distance(cur_header[n].index.lsb, i) < width(cur_header[n].index)
                      /\ get(name2id, HierName(cur_header[n].path, Some(i))) # None
                      /\ states'[get(name2id, HierName(cur_header[n].path, Some(i)))[1] + 1]
                            .cur_state = bits_read[k + 1]]_vars

\* bits [1,0,1,0] driven into v[3:0]: v[3] and v[1] hold 1, v[2] and v[0] hold 0
C15_Witness ==
    /\ pc = "body"
    /\ cur_header = <<Var("v", Range(3, 0), 0, 4)>>
    /\ tokens # <<>>
    /\ last_token = Value(0, <<1, 0, 1, 0>>)
    /\ states[get(name2id, HierName("v", Some(3)))[1] + 1].cur_state = 1
    /\ states[get(name2id, HierName("v", Some(2)))[1] + 1].cur_state = 0
    /\ states[get(name2id, HierName("v", Some(1)))[1] + 1].cur_state = 1
    /\ states[get(name2id, HierName("v", Some(0)))[1] + 1].cur_state = 0

----------------------------------------------------------------------------
(* Strobe sampling. *)

\* the value a bit shows when strobe k ends: that of its last change in a
\* strobe index up to k, 0 when there is none
sample(evs, k) ==
    IF \E j \in 1..Len(evs) : evs[j][1] <= k
    THEN evs[CHOOSE j \in 1..Len(evs) :
                /\ evs[j][1] <= k
                /\ \A i \in (j + 1)..Len(evs) : evs[i][1] > k][2]
    ELSE 0

last_strobe(evs) == IF evs = <<>> THEN 0 ELSE evs[Len(evs)][1]

\* the strobe-sampled value sequence, from the pre-strobe interval on
sampled(evs, n) == [k \in 0..n |-> sample(evs, k)]

\* the strobes k..n whose sample differs from the sample before, in order
RECURSIVE sampled_transitions(_, _, _)
sampled_transitions(evs, k, n) ==
    IF k > n THEN <<>>
    ELSE (IF sample(evs, k) # sample(evs, k - 1)
          THEN << <<k, sample(evs, k - 1), sample(evs, k)>> >>
          ELSE <<>>)
         \o sampled_transitions(evs, k + 1, n)

\* the hash update folded over a list of transitions, on 16-bit limbs
RECURSIVE RefFold(_, _, _)
RefFold(l, trs, j) ==
    IF j > Len(trs) THEN l
    ELSE RefFold(RefAdd(RefTimesB(RefAdd(RefTimesA(l), RefSmall(trs[j][1]))),
                        RefSmall(trs[j][3] + 1)),
                 trs, j + 1)

x_events == events_of(value_changes, 0, 1)
y_events == events_of(value_changes, 1, 1)

\* C16: the final fingerprint of a bit is the fold of the hash update over the
\* strobes k >= 1 whose sampled value differs from the sample before, in
\* increasing k with the sampled value as new state (so at most one commit per
\* strobe), and two bits with equal sampled sequences get equal fingerprints.
C16_StrobeSampling ==
    (pc = "done" /\ TwoScalars /\ old_hashes = <<>>) =>
        /\ committed[1] = sampled_transitions(x_events, 1, last_strobe(x_events))
        /\ committed[2] = sampled_transitions(y_events, 1, last_strobe(y_events))
        /\ Limbs(hashes[1]) = RefFold(Limbs(Zero64), committed[1], 1)
        /\ Limbs(hashes[2]) = RefFold(Limbs(Zero64), committed[2], 1)
        /\ \A s \in 1..2 : \A j \in 1..(Len(committed[s]) - 1) :
              committed[s][j][1] < committed[s][j + 1][1]
        /\ sampled(x_events, 3) = sampled(y_events, 3) => hashes[1] = hashes[2]

\* x glitches 1, 0, 1 within strobe 2 where y asserts 1 twice; both fall to 0
\* in strobe 3
C16_Witness ==
    /\ pc = "done"
    /\ TwoScalars
    /\ x_events = << <<2, 1>>, <<2, 0>>, <<2, 1>>, <<3, 0>> >>
    /\ y_events = << <<2, 1>>, <<2, 1>>, <<3, 0>> >>
    /\ committed[1] = << <<2, 0, 1>>, <<3, 1, 0>> >>
    /\ hashes[1] = hashes[2]
    /\ hashes[1] # Zero64

----------------------------------------------------------------------------
(* Strobe quantization. *)

\* this step reads a Timestamp token under a strobe period of at least 1
TimestampRead ==
    /\ pc = "body"
    /\ strobe_period >= 1
    /\ Len(tokens') = Len(tokens) + 1
    /\ tokens'[Len(tokens')].kind = "Timestamp"

time_read == tokens'[Len(tokens')].t

\* C17: for strobe_period >= 1 the strobe index after Timestamp(t) is 0 if
\* t <= strobe_start and floor((t - strobe_start) / strobe_period) + 1, a value
\* of at least 1, otherwise; it is 0 before the first Timestamp token and
\* never decreases while the timestamps increase.
C17_Quantization ==
    /\ []((\A k \in 1..Len(tokens) : tokens[k].kind # "Timestamp") => cur_time_id = 0)
    /\ [][TimestampRead =>
             /\ pc' = "body"
             /\ ule(cur_time_id, cur_time_id')
             /\ IF ule(time_read, strobe_start)
                THEN cur_time_id' = 0
                ELSE /\ cur_time_id' # 0
                     /\ cur_time_id' - 1 = (time_read - strobe_start) \div strobe_period]_vars

\* the same where the index fits 64 bits
C17_QuantizationWhenFits ==
    /\ []((\A k \in 1..Len(tokens) : tokens[k].kind # "Timestamp") => cur_time_id = 0)
    /\ [][(TimestampRead
           /\ ~index_overflows(time_read, strobe_start, strobe_period)) =>
             /\ pc' = "body"
             /\ ule(cur_time_id, cur_time_id')
             /\ IF ule(time_read, strobe_start)
                THEN cur_time_id' = 0
                ELSE /\ cur_time_id' # 0
                     /\ cur_time_id' - 1 = (time_read - strobe_start) \div strobe_period]_vars

----------------------------------------------------------------------------
(* Stability of name2id and the slot ranges of the codes. *)

\* C19: no step changes the slot or the position of a name that name2id holds.
C19_NameSlotStable ==
    [][\A k \in 1..Len(name2id) :
          k <= Len(name2id') /\ name2id'[k] = name2id[k]]_vars

\* the slots of the code of a declared variable
code_range(var) == id2hash[var.code]..(id2hash[var.code] + var.size - 1)

\* every code of the current header is declared with one width
OneWidthPerCode ==
    \A i \in 1..Len(cur_header), j \in 1..Len(cur_header) :
       cur_header[i].code = cur_header[j].code =>
          cur_header[i].size = cur_header[j].size

\* C20: after a header pass that returned, the slot ranges of two distinct
\* declared codes are disjoint and lie within hashes.
C20_CodeRangesDisjoint ==
    (pc \in {"body", "done"} /\ OneWidthPerCode) =>
        \A i \in 1..Len(cur_header), j \in 1..Len(cur_header) :
           /\ \A s \in code_range(cur_header[i]) : s < Len(hashes)
           /\ cur_header[i].code # cur_header[j].code =>
                 code_range(cur_header[i]) \cap code_range(cur_header[j]) = {}

====
